---- MODULE Spec2Model ----
(***************************************************************************)
(* Model of the provisioning orchestration of GcpAccount                   *)
(* (src/src/server_manager/web_app/gcp_account.ts).                        *)
(*                                                                         *)
(* JavaScript runs each continuation to its next await without             *)
(* interleaving, so one action is one continuation: it starts when a cloud *)
(* call answers (fulfils or rejects) and runs up to the next cloud call    *)
(* it issues.  The cloud is the environment: what a call answers is drawn  *)
(* with \E from the answers the call can give.                             *)
(***************************************************************************)
EXTENDS Integers, Sequences, FiniteSets, TLC

\* ------------------------------------------------------------------ bounds
\* Most polls an Operation answers "not done" before it answers done.
MaxPolls == 2
\* Longest enabled-services list a listEnabledServices response carries.
MaxServices == 3
\* Most zones a listZones response carries.
MaxZones == 3
\* Most hourly and daily ticks of the metrics publisher's timers.
MaxHourlyTicks == 2
MaxDailyTicks == 1
\* Most steps (of half a second) the clock advances.
MaxClockSteps == 1

\* Two createServer flows run concurrently; flows share nothing but the
\* firewall rules of their project.
Flows == {"f1", "f2"}
Projects == {"p1", "p2"}
BillingAccounts == {"BILL-1", "BILL-2"}

\* ------------------------------------------------------- program constants
OUTLINE_PROJECT_NAME == "Outline servers"
OUTLINE_FIREWALL_NAME == "outline"
REQUIRED_GCP_SERVICES == <<"compute.googleapis.com">>

\* Cloud calls a createServer flow can issue through apiClient.
FlowMethods ==
  {"createInstance", "computeEngineOperationZoneWait", "getInstance",
   "createStaticIp", "listFirewalls", "createFirewall"}

\* Network interfaces of a created instance as getInstance reports them: a
\* sequence of interfaces, each the sequence of the natIPs of its access
\* configurations.
InstanceShapes ==
  { << <<"10.0.0.1">> >>,
    << <<"10.0.0.2", "10.0.0.1">> >>,
    << <<"10.0.0.1">>, <<"10.0.0.2">> >> }

NoInstance == << >>

\* Cloud calls createProject / repairProject can issue through apiClient.
ProjectMethods ==
  {"createProject", "resourceManagerOperationGet", "updateProjectBillingInfo",
   "enableServices", "serviceUsageOperationGet"}

\* Cloud calls of the whole apiClient surface that isProjectHealthy could issue.
HealthMethods ==
  {"getProjectBillingInfo", "listEnabledServices", "updateProjectBillingInfo",
   "enableServices", "createProject"}

\* An Operation value: null, or {done, error?}.
NullOperation == [isNull |-> TRUE, done |-> FALSE, error |-> FALSE]
Operations ==
  {[isNull |-> FALSE, done |-> d, error |-> e] : d \in BOOLEAN, e \in BOOLEAN}

NoResult == [id |-> "none", name |-> "none"]

\* Region URLs of zones, as sequences of characters.
RegionUrls ==
  { <<"p", "/", "r", "/", "a">>, <<"q", "/", "r", "/", "a">>,
    <<"p", "/", "r", "/", "b">> }

ZoneStatuses == {"UP", "DOWN"}

\* The name of the i-th zone of a response (zone names are unique).
ZoneName(i) == "zone-" \o ToString(i)

\* const result: gcp.ZoneMap = {}
EmptyZoneMap == [k \in {} |-> << >>]

SANCTIONED_COUNTRIES == {"CU", "KP", "SY"}

\* Answers of usageMetrics.getCountryUsage(): lists of CountryUsage.
CountryUsages ==
  { << >>,
    << [country |-> "US", inboundBytes |-> 10] >>,
    << [country |-> "CU", inboundBytes |-> 5] >>,
    << [country |-> "", inboundBytes |-> 7], [country |-> "US", inboundBytes |-> 0] >> }

NoReport == [startUtcMs |-> 0, endUtcMs |-> 0, userReports |-> << >>]

\* A run of the hourly callback that has not fired yet.
HourlyNotFired ==
  [pc |-> "notFired", enabledAtFire |-> FALSE, timeDeltaSecs |-> 0,
   queriedAtMs |-> 0, report |-> NoReport, queries |-> 0, posts |-> 0,
   resets |-> 0]

\* A run of the daily callback that has not fired yet.
DailyNotFired ==
  [pc |-> "notFired", enabledAtFire |-> FALSE, timestampUtcMs |-> 0, posts |-> 0]

\* Clock readings of `new Date()`: the local calendar date (getMonth counts
\* from 0) and the UTC time of day of one instant.
Reading(y, mo, d, h, mi, s) ==
  [year |-> y, month |-> mo, date |-> d, hours |-> h, minutes |-> mi,
   seconds |-> s]

\* 1 January 2021 00:01:01, 11 February 2021 01:01:01 and 1 December 2021
\* 01:01:01.
Readings ==
  { Reading(2021, 0, 1, 0, 1, 1), Reading(2021, 1, 11, 1, 1, 1),
    Reading(2021, 11, 1, 1, 1, 1) }

NoReading ==
  [year |-> 0, month |-> 0, date |-> 0, hours |-> 0, minutes |-> 0, seconds |-> 0]

VARIABLES
  pc,            \* createServer call of each flow
  project,       \* projectId argument of each flow
  opStatus,      \* cloud: status of the flow's instance-creation Operation
  opError,       \* cloud: the Operation carries an error
  instance,      \* cloud: network interfaces of the instance the flow created
  ipStep,        \* zone wait + promoteEphemeralIpIfNeeded continuation
  fwStep,        \* createFirewallIfNeeded continuation
  completion,    \* the completion promise of the flow's handle
  settleCount,   \* how many times completion was settled
  fwListItems,   \* number of items in the listFirewalls response, -1 before
  fwOpError,     \* createFirewall answered an Operation carrying errors
  ipOpError,     \* createStaticIp answered an Operation carrying errors
  staticIpData,  \* address field of the createStaticIp request, "" before
  instanceResp,  \* the getInstance response the flow received
  fwPrior,       \* flows whose firewall step had created the rule before this one started
  calls,         \* per flow, how often each cloud method was called
  firewalls      \* cloud: per project, number of firewall rules named 'outline'

serverVars ==
  <<pc, project, opStatus, opError, instance, ipStep, fwStep, completion,
    settleCount, fwListItems, fwOpError, ipOpError, staticIpData, instanceResp,
    fwPrior, calls, firewalls>>

VARIABLES
  pPc,           \* position of the createProject / repairProject call
  pEntry,        \* which of the two was called
  pProjectId,    \* its projectId argument
  pBillingId,    \* its billingAccountId argument
  createProjectOperation,   \* local of createProject
  enableServicesResponse,   \* local of configureProject
  enableServicesOperation,  \* local of configureProject
  pPolls,        \* "not done" answers of the Operation being polled
  pCalls,        \* how often each cloud method was called
  pResult        \* the value the call returned

projVars ==
  <<pPc, pEntry, pProjectId, pBillingId, createProjectOperation,
    enableServicesResponse, enableServicesOperation, pPolls, pCalls, pResult>>

VARIABLES
  hPc,           \* position of the isProjectHealthy call
  hProjectId,    \* its projectId argument
  hBilling,      \* billingEnabled of the getProjectBillingInfo response
  hServices,     \* config.name of each service of the listEnabledServices response
  hCalls,        \* how often each cloud method was called
  hResult        \* the value the call returned

healthVars == <<hPc, hProjectId, hBilling, hServices, hCalls, hResult>>

coreVars == <<serverVars, projVars, healthVars>>

VARIABLES
  nNow,          \* per createInstance call, the clock reading `now` of makeInstanceName
  nName          \* per createInstance call, the name makeInstanceName returned

nameVars == <<nNow, nName>>

VARIABLES
  lPc,           \* position of the listLocations call
  lProjectId,    \* its projectId argument
  lZones,        \* items of the listZones response
  lResult        \* the ZoneMap the call returned

locVars == <<lPc, lProjectId, lZones, lResult>>

VARIABLES
  metricsEnabled,          \* serverConfig.data().metricsEnabled
  clock,                   \* the time clock.now() and Date.now() read, in ms
  reportStartTimestampMs,  \* field of OutlineSharedMetricsPublisher
  resetTimeMs,             \* field of PrometheusUsageMetrics
  hourly,                  \* the runs of the hourly interval callback, in firing order
  daily,                   \* the runs of the daily interval callback, in firing order
  hFired,                  \* number of hourly ticks fired
  dFired                   \* number of daily ticks fired

metricsVars ==
  <<metricsEnabled, clock, reportStartTimestampMs, resetTimeMs, hourly, daily,
    hFired, dFired>>

otherVars == <<nameVars, locVars, metricsVars>>

vars == <<serverVars, projVars, healthVars, otherVars>>

\* ------------------------------------------------------------ promise join
\* Outcome of a continuation's promise from its position.
StepOutcome(step) ==
  IF step = "fulfilled" THEN "fulfilled"
  ELSE IF step = "rejected" THEN "rejected"
  ELSE "pending"

\* Promise.race in place of Promise.all: settles with the first input to settle.
PromiseRace(cur, ip, fw) ==
  IF cur # "pending" THEN cur
  ELSE IF StepOutcome(ip) = "rejected" \/ StepOutcome(fw) = "rejected" THEN "rejected"
  ELSE IF StepOutcome(ip) = "fulfilled" \/ StepOutcome(fw) = "fulfilled" THEN "fulfilled"
  ELSE "pending"

\* Promise.all([ip, fw]).then(): rejects as soon as one input rejects,
\* fulfils once both have fulfilled; a settled promise never changes.
PromiseAll(cur, ip, fw) ==
  IF cur # "pending" THEN cur
  ELSE IF StepOutcome(ip) = "rejected" \/ StepOutcome(fw) = "rejected" THEN "rejected"
  ELSE IF StepOutcome(ip) = "fulfilled" /\ StepOutcome(fw) = "fulfilled" THEN "fulfilled"
  ELSE "pending"

Call(f, m) == [calls EXCEPT ![f][m] = @ + 1]

Settle(f, ip, fw) ==
  /\ completion' = [completion EXCEPT ![f] = PromiseAll(@, ip, fw)]
  /\ settleCount' = [settleCount EXCEPT
       ![f] = IF completion'[f] # completion[f] THEN @ + 1 ELSE @]

\* -------------------------------------------------------------------- Init
Init ==
  /\ pc = [f \in Flows |-> "idle"]
  /\ project = [f \in Flows |-> "none"]
  /\ opStatus = [f \in Flows |-> "none"]
  /\ opError = [f \in Flows |-> FALSE]
  /\ instance = [f \in Flows |-> NoInstance]
  /\ ipStep = [f \in Flows |-> "none"]
  /\ fwStep = [f \in Flows |-> "none"]
  /\ completion = [f \in Flows |-> "none"]
  /\ settleCount = [f \in Flows |-> 0]
  /\ fwListItems = [f \in Flows |-> -1]
  /\ fwOpError = [f \in Flows |-> FALSE]
  /\ ipOpError = [f \in Flows |-> FALSE]
  /\ staticIpData = [f \in Flows |-> ""]
  /\ instanceResp = [f \in Flows |-> NoInstance]
  /\ fwPrior = [f \in Flows |-> {}]
  /\ calls = [f \in Flows |-> [m \in FlowMethods |-> 0]]
  /\ firewalls \in [Projects -> {0, 1}]
  /\ pPc = "idle"
  /\ pEntry = "none"
  /\ pProjectId = "none"
  /\ pBillingId = "none"
  /\ createProjectOperation = NullOperation
  /\ enableServicesResponse = NullOperation
  /\ enableServicesOperation = NullOperation
  /\ pPolls = 0
  /\ pCalls = [m \in ProjectMethods |-> 0]
  /\ pResult = NoResult
  /\ hPc = "idle"
  /\ hProjectId = "none"
  /\ hBilling = "none"
  /\ hServices = << >>
  /\ hCalls = [m \in HealthMethods |-> 0]
  /\ hResult = "none"
  /\ nNow = [f \in Flows |-> NoReading]
  /\ nName = [f \in Flows |-> ""]
  /\ lPc = "idle"
  /\ lProjectId = "none"
  /\ lZones = << >>
  /\ lResult = EmptyZoneMap
  /\ metricsEnabled = "undefined"
  /\ clock = 0
  /\ reportStartTimestampMs = 0
  /\ resetTimeMs = 0
  /\ hourly = [k \in 1..MaxHourlyTicks |-> HourlyNotFired]
  /\ daily = [k \in 1..MaxDailyTicks |-> DailyNotFired]
  /\ hFired = 0
  /\ dFired = 0

\* -------------------------------------------------------- makeInstanceName
\* Template-literal conversion of a number: its decimal digits, unpadded.
NumberToString(n) == ToString(n)

\* makeInstanceName() for the reading `now`.
makeInstanceName(now) ==
  "outline-" \o NumberToString(now.year) \o NumberToString(now.month)
    \o NumberToString(now.date) \o "-" \o NumberToString(now.hours)
    \o NumberToString(now.minutes) \o NumberToString(now.seconds)

\* ------------------------------------------------------------ createServer
\* createServer without the await of createInstance: the handle is built
\* from the pending promise and returned at once.
createServerNoAwait(f) ==
  /\ pc[f] = "idle"
  /\ \E p \in Projects : project' = [project EXCEPT ![f] = p]
  /\ pc' = [pc EXCEPT ![f] = "returned"]
  /\ \E now \in Readings :
       /\ nNow' = [nNow EXCEPT ![f] = now]
       /\ nName' = [nName EXCEPT ![f] = makeInstanceName(now)]
  /\ calls' = Call(f, "createInstance")
  /\ UNCHANGED <<locVars, metricsVars, projVars, healthVars, opStatus, opError, instance, ipStep,
                 fwStep, completion, settleCount, fwListItems, fwOpError,
                 ipOpError, staticIpData, instanceResp, fwPrior, firewalls>>

\* createServer(projectId, ...) runs createInstance up to its await of
\* apiClient.createInstance: makeInstanceName reads the clock and the name
\* goes into the request.
createServer(f) ==
  /\ pc[f] = "idle"
  /\ \E p \in Projects : project' = [project EXCEPT ![f] = p]
  /\ pc' = [pc EXCEPT ![f] = "createInstance"]
  /\ \E now \in Readings :
       /\ nNow' = [nNow EXCEPT ![f] = now]
       /\ nName' = [nName EXCEPT ![f] = makeInstanceName(now)]
  /\ calls' = Call(f, "createInstance")
  /\ UNCHANGED <<locVars, metricsVars, projVars, healthVars, opStatus, opError, instance, ipStep, fwStep, completion,
                 settleCount, fwListItems, fwOpError, ipOpError, staticIpData,
                 instanceResp, fwPrior, firewalls>>

\* Flows of the same project whose createFirewallIfNeeded has returned after
\* a createFirewall that created the rule.
FirewallCreatedBy(f) ==
  {g \in Flows \ {f} :
     /\ project[g] = project[f]
     /\ fwStep[g] = "fulfilled"
     /\ calls[g]["createFirewall"] = 1
     /\ ~fwOpError[g]}

\* promoteEphemeralIpIfNeeded called beside the zone wait instead of in its
\* then-callback: getInstance is issued together with the wait.
createInstanceFulfilledNoChain(f) ==
  /\ pc[f] = "createInstance"
  /\ \E st \in {"RUNNING", "DONE"} :
       /\ opStatus' = [opStatus EXCEPT ![f] = st]
       /\ IF st = "DONE"
            THEN \E err \in BOOLEAN :
                   /\ opError' = [opError EXCEPT ![f] = err]
                   /\ IF err THEN instance' = instance
                      ELSE \E s \in InstanceShapes :
                             instance' = [instance EXCEPT ![f] = s]
            ELSE UNCHANGED <<opError, instance>>
  /\ ipStep' = [ipStep EXCEPT ![f] = "getInstance"]
  /\ fwStep' = [fwStep EXCEPT ![f] = "listFirewalls"]
  /\ calls' = [calls EXCEPT ![f]["computeEngineOperationZoneWait"] = @ + 1,
                            ![f]["getInstance"] = @ + 1,
                            ![f]["listFirewalls"] = @ + 1]
  /\ fwPrior' = [fwPrior EXCEPT ![f] = FirewallCreatedBy(f)]
  /\ completion' = [completion EXCEPT ![f] = "pending"]
  /\ pc' = [pc EXCEPT ![f] = "returned"]
  /\ UNCHANGED <<otherVars, projVars, healthVars, project, settleCount,
                 fwListItems, fwOpError, ipOpError, staticIpData,
                 instanceResp, firewalls>>

\* apiClient.createInstance fulfils with the Operation: createInstance issues
\* the zone wait, calls createFirewallIfNeeded (which issues listFirewalls),
\* builds completion and returns; createServer returns the handle.
createInstanceFulfilled(f) ==
  /\ pc[f] = "createInstance"
  /\ \E st \in {"RUNNING", "DONE"} :
       /\ opStatus' = [opStatus EXCEPT ![f] = st]
       /\ IF st = "DONE"
            THEN \E err \in BOOLEAN :
                   /\ opError' = [opError EXCEPT ![f] = err]
                   /\ IF err THEN instance' = instance
                      ELSE \E s \in InstanceShapes :
                             instance' = [instance EXCEPT ![f] = s]
            ELSE UNCHANGED <<opError, instance>>
  /\ ipStep' = [ipStep EXCEPT ![f] = "zoneWait"]
  /\ fwStep' = [fwStep EXCEPT ![f] = "listFirewalls"]
  /\ calls' = [calls EXCEPT ![f]["computeEngineOperationZoneWait"] = @ + 1,
                            ![f]["listFirewalls"] = @ + 1]
  /\ fwPrior' = [fwPrior EXCEPT ![f] = FirewallCreatedBy(f)]
  /\ completion' = [completion EXCEPT ![f] = "pending"]
  /\ pc' = [pc EXCEPT ![f] = "returned"]
  /\ UNCHANGED <<otherVars, projVars, healthVars, project, settleCount, fwListItems, fwOpError, ipOpError,
                 staticIpData, instanceResp, firewalls>>

\* apiClient.createInstance rejects: the await throws, createServer rejects.
createInstanceRejected(f) ==
  /\ pc[f] = "createInstance"
  /\ pc' = [pc EXCEPT ![f] = "rejected"]
  /\ UNCHANGED <<otherVars, projVars, healthVars, project, opStatus, opError, instance, ipStep, fwStep,
                 completion, settleCount, fwListItems, fwOpError, ipOpError,
                 staticIpData, instanceResp, fwPrior, calls, firewalls>>

\* Cloud: the instance-creation Operation reaches DONE, with or without error.
OperationDone(f) ==
  /\ opStatus[f] = "RUNNING"
  /\ opStatus' = [opStatus EXCEPT ![f] = "DONE"]
  /\ \E err \in BOOLEAN :
       /\ opError' = [opError EXCEPT ![f] = err]
       /\ IF err THEN instance' = instance
          ELSE \E s \in InstanceShapes : instance' = [instance EXCEPT ![f] = s]
  /\ UNCHANGED <<otherVars, projVars, healthVars, pc, project, ipStep, fwStep, completion, settleCount,
                 fwListItems, fwOpError, ipOpError, staticIpData, instanceResp,
                 fwPrior, calls, firewalls>>

\* computeEngineOperationZoneWait answers only once the Operation is DONE.
ZoneWaitReturns(f) == opStatus[f] = "DONE"

\* operation.targetId, the id the cloud gives the instance of flow f.
TargetId(f) == f

\* The locator promoteEphemeralIpIfNeeded is called with.
Locator(f) == [projectId |-> project[f], instanceId |-> TargetId(f)]

\* apiClient.getInstance(locator): the cloud's instance under that id.
getInstance(locator) == instance[locator.instanceId]

\* The last access configuration of the last interface in place of the first.
natIPLast(inst) == inst[Len(inst)][Len(inst[Len(inst)])]

\* instance.networkInterfaces[0].accessConfigs[0].natIP
natIP(inst) == inst[1][1]

\* The zone wait fulfils: the then-callback calls promoteEphemeralIpIfNeeded,
\* which issues getInstance.
zoneWaitFulfilled(f) ==
  /\ ipStep[f] = "zoneWait"
  /\ ZoneWaitReturns(f)
  /\ ipStep' = [ipStep EXCEPT ![f] = "getInstance"]
  /\ calls' = Call(f, "getInstance")
  /\ UNCHANGED <<otherVars, projVars, healthVars, pc, project, opStatus, opError, instance, fwStep, completion,
                 settleCount, fwListItems, fwOpError, ipOpError, staticIpData,
                 instanceResp, fwPrior, firewalls>>

\* getInstance fulfils: the address is read and createStaticIp is issued.
getInstanceFulfilled(f) ==
  /\ ipStep[f] = "getInstance"
  /\ getInstance(Locator(f)) # NoInstance
  /\ instanceResp' = [instanceResp EXCEPT ![f] = getInstance(Locator(f))]
  /\ staticIpData' = [staticIpData EXCEPT ![f] = natIP(instanceResp'[f])]
  /\ ipStep' = [ipStep EXCEPT ![f] = "createStaticIp"]
  /\ calls' = Call(f, "createStaticIp")
  /\ UNCHANGED <<otherVars, projVars, healthVars, pc, project, opStatus, opError, instance, fwStep, completion,
                 settleCount, fwListItems, fwOpError, ipOpError, fwPrior,
                 firewalls>>

\* createStaticIp fulfils with an Operation; an Operation carrying
\* error.errors only reaches the empty "TODO" branch, so the step fulfils.
createStaticIpFulfilled(f) ==
  /\ ipStep[f] = "createStaticIp"
  /\ \E err \in BOOLEAN : ipOpError' = [ipOpError EXCEPT ![f] = err]
  /\ ipStep' = [ipStep EXCEPT ![f] = "fulfilled"]
  /\ Settle(f, ipStep'[f], fwStep[f])
  /\ UNCHANGED <<otherVars, projVars, healthVars, pc, project, opStatus, opError, instance, fwStep, fwListItems,
                 fwOpError, staticIpData, instanceResp, fwPrior, calls,
                 firewalls>>

\* The pending cloud call of the IP continuation (zone wait, getInstance or
\* createStaticIp) rejects: the continuation's promise rejects.
ipStepRejected(f) ==
  /\ ipStep[f] \in {"zoneWait", "getInstance", "createStaticIp"}
  /\ ipStep' = [ipStep EXCEPT ![f] = "rejected"]
  /\ Settle(f, ipStep'[f], fwStep[f])
  /\ UNCHANGED <<otherVars, projVars, healthVars, pc, project, opStatus, opError, instance, fwStep, fwListItems,
                 fwOpError, ipOpError, staticIpData, instanceResp, fwPrior,
                 calls, firewalls>>

\* The existence test dropped: the rule is always created.
FirewallAlwaysMissing(items) == TRUE

\* !getFirewallResponse?.items || getFirewallResponse?.items?.length === 0
FirewallMissing(items) == items = 0

\* listFirewalls fulfils with the project's rules named 'outline':
\* createFirewall is issued if there is none, else the step fulfils.
listFirewallsFulfilled(f) ==
  /\ fwStep[f] = "listFirewalls"
  /\ fwListItems' = [fwListItems EXCEPT ![f] = firewalls[project[f]]]
  /\ IF FirewallMissing(fwListItems'[f])
       THEN /\ fwStep' = [fwStep EXCEPT ![f] = "createFirewall"]
            /\ calls' = Call(f, "createFirewall")
            /\ UNCHANGED <<completion, settleCount>>
       ELSE /\ fwStep' = [fwStep EXCEPT ![f] = "fulfilled"]
            /\ calls' = calls
            /\ Settle(f, ipStep[f], fwStep'[f])
  /\ UNCHANGED <<otherVars, projVars, healthVars, pc, project, opStatus, opError, instance, ipStep, fwOpError,
                 ipOpError, staticIpData, instanceResp, fwPrior, firewalls>>

\* createFirewall fulfils with an Operation: the rule now exists, or the
\* Operation carries error.errors, which only reaches the empty "TODO"
\* branch; either way the step fulfils.
createFirewallFulfilled(f) ==
  /\ fwStep[f] = "createFirewall"
  /\ \E err \in BOOLEAN :
       /\ fwOpError' = [fwOpError EXCEPT ![f] = err]
       /\ firewalls' = IF err THEN firewalls
                       ELSE [firewalls EXCEPT ![project[f]] = @ + 1]
  /\ fwStep' = [fwStep EXCEPT ![f] = "fulfilled"]
  /\ Settle(f, ipStep[f], fwStep'[f])
  /\ UNCHANGED <<otherVars, projVars, healthVars, pc, project, opStatus, opError, instance, ipStep, fwListItems,
                 ipOpError, staticIpData, instanceResp, fwPrior, calls>>

\* The pending cloud call of the firewall continuation (listFirewalls or
\* createFirewall) rejects: the continuation's promise rejects.
fwStepRejected(f) ==
  /\ fwStep[f] \in {"listFirewalls", "createFirewall"}
  /\ fwStep' = [fwStep EXCEPT ![f] = "rejected"]
  /\ Settle(f, ipStep[f], fwStep'[f])
  /\ UNCHANGED <<otherVars, projVars, healthVars, pc, project, opStatus, opError, instance, ipStep, fwListItems,
                 fwOpError, ipOpError, staticIpData, instanceResp, fwPrior,
                 calls, firewalls>>

\* ----------------------------------------------------------- createProject
\* What a poll of an Operation can answer: not done while the poll bound
\* allows, else done, with or without error.
PollAnswers ==
  {o \in Operations : (o.error => o.done) /\ (~o.done => pPolls < MaxPolls)}

\* createProject(projectId, billingAccountId) issues apiClient.createProject.
createProject ==
  /\ pPc = "idle"
  /\ \E p \in Projects, b \in BillingAccounts :
       /\ pProjectId' = p
       /\ pBillingId' = b
  /\ pEntry' = "createProject"
  /\ pPc' = "createProject"
  /\ pCalls' = [pCalls EXCEPT !["createProject"] = @ + 1]
  /\ UNCHANGED <<otherVars, serverVars, healthVars, createProjectOperation,
                 enableServicesResponse, enableServicesOperation, pPolls,
                 pResult>>

\* The loop condition tested on the createProject response before any
\* query: a response already done skips the loop.
createProjectFulfilledSkipsLoop ==
  /\ pPc = "createProject"
  /\ \E resp \in {o \in Operations : o.error => o.done} :
       IF resp.done
         THEN /\ createProjectOperation' = resp
              /\ pPc' = "updateBilling"
              /\ pCalls' = [pCalls EXCEPT !["updateProjectBillingInfo"] = @ + 1]
         ELSE /\ createProjectOperation' = NullOperation
              /\ pPc' = "sleepCreate"
              /\ pCalls' = pCalls
  /\ UNCHANGED <<otherVars, serverVars, healthVars, pEntry, pProjectId,
                 pBillingId, enableServicesResponse, enableServicesOperation,
                 pPolls, pResult>>

\* apiClient.createProject fulfils: the poll loop is entered
\* (createProjectOperation is null) and sleeps.
createProjectFulfilled ==
  /\ pPc = "createProject"
  /\ createProjectOperation' = NullOperation
  /\ pPc' = "sleepCreate"
  /\ UNCHANGED <<otherVars, serverVars, healthVars, pEntry, pProjectId, pBillingId,
                 enableServicesResponse, enableServicesOperation, pPolls,
                 pCalls, pResult>>

\* sleep(2 * 1000) elapses: resourceManagerOperationGet is issued.
sleepCreateElapsed ==
  /\ pPc = "sleepCreate"
  /\ pPc' = "getCreate"
  /\ pCalls' = [pCalls EXCEPT !["resourceManagerOperationGet"] = @ + 1]
  /\ UNCHANGED <<otherVars, serverVars, healthVars, pEntry, pProjectId, pBillingId,
                 createProjectOperation, enableServicesResponse,
                 enableServicesOperation, pPolls, pResult>>

\* createProject after its poll loop: createProjectOperation.error only
\* reaches the empty "TODO" branch, then configureProject is called, which
\* issues updateProjectBillingInfo.
AfterCreateLoop(op) ==
  /\ pPc' = "updateBilling"
  /\ pCalls' = [pCalls EXCEPT !["updateProjectBillingInfo"] = @ + 1]
  /\ pPolls' = 0

\* `if` in place of `while`: one query, then on to configureProject whether
\* or not it reported done.
getCreateFulfilledNoLoop ==
  /\ pPc = "getCreate"
  /\ \E op \in PollAnswers :
       /\ createProjectOperation' = op
       /\ AfterCreateLoop(op)
  /\ UNCHANGED <<otherVars, serverVars, healthVars, pEntry, pProjectId,
                 pBillingId, enableServicesResponse, enableServicesOperation,
                 pResult>>

\* resourceManagerOperationGet fulfils: loop again while not done.
getCreateFulfilled ==
  /\ pPc = "getCreate"
  /\ \E op \in PollAnswers :
       /\ createProjectOperation' = op
       /\ IF ~op.done
            THEN /\ pPc' = "sleepCreate"
                 /\ pPolls' = pPolls + 1
                 /\ pCalls' = pCalls
            ELSE AfterCreateLoop(op)
  /\ UNCHANGED <<otherVars, serverVars, healthVars, pEntry, pProjectId, pBillingId,
                 enableServicesResponse, enableServicesOperation, pResult>>

\* repairProject(projectId, billingAccountId) calls configureProject, which
\* issues updateProjectBillingInfo.
repairProject ==
  /\ pPc = "idle"
  /\ \E p \in Projects, b \in BillingAccounts :
       /\ pProjectId' = p
       /\ pBillingId' = b
  /\ pEntry' = "repairProject"
  /\ pPc' = "updateBilling"
  /\ pCalls' = [pCalls EXCEPT !["updateProjectBillingInfo"] = @ + 1]
  /\ UNCHANGED <<otherVars, serverVars, healthVars, createProjectOperation,
                 enableServicesResponse, enableServicesOperation, pPolls,
                 pResult>>

\* updateProjectBillingInfo fulfils: enableServices is issued.
updateBillingFulfilled ==
  /\ pPc = "updateBilling"
  /\ pPc' = "enableServices"
  /\ pCalls' = [pCalls EXCEPT !["enableServices"] = @ + 1]
  /\ UNCHANGED <<otherVars, serverVars, healthVars, pEntry, pProjectId, pBillingId,
                 createProjectOperation, enableServicesResponse,
                 enableServicesOperation, pPolls, pResult>>

\* enableServices fulfils with its response: the poll loop is entered
\* (enableServicesOperation is null) and sleeps.
enableServicesFulfilled ==
  /\ pPc = "enableServices"
  /\ \E r \in {o \in Operations : o.error => o.done} :
       enableServicesResponse' = r
  /\ enableServicesOperation' = NullOperation
  /\ pPc' = "sleepEnable"
  /\ UNCHANGED <<otherVars, serverVars, healthVars, pEntry, pProjectId, pBillingId,
                 createProjectOperation, pPolls, pCalls, pResult>>

\* The enableServices request moved into the poll loop: it is issued again
\* before every poll.
sleepEnableElapsedReissue ==
  /\ pPc = "sleepEnable"
  /\ pPc' = "getEnable"
  /\ pCalls' = [pCalls EXCEPT !["serviceUsageOperationGet"] = @ + 1,
                              !["enableServices"] =
                                 IF pCalls["serviceUsageOperationGet"] > 0
                                 THEN @ + 1 ELSE @]
  /\ UNCHANGED <<otherVars, serverVars, healthVars, pEntry, pProjectId, pBillingId,
                 createProjectOperation, enableServicesResponse,
                 enableServicesOperation, pPolls, pResult>>

\* sleep(2 * 1000) elapses: serviceUsageOperationGet is issued.
sleepEnableElapsed ==
  /\ pPc = "sleepEnable"
  /\ pPc' = "getEnable"
  /\ pCalls' = [pCalls EXCEPT !["serviceUsageOperationGet"] = @ + 1]
  /\ UNCHANGED <<otherVars, serverVars, healthVars, pEntry, pProjectId, pBillingId,
                 createProjectOperation, enableServicesResponse,
                 enableServicesOperation, pPolls, pResult>>

\* The Project value createProject returns.
ProjectValue(projectId) == [id |-> projectId, name |-> OUTLINE_PROJECT_NAME]

\* configureProject after its poll loop: enableServicesResponse.error only
\* reaches the empty "TODO" branch and configureProject returns; createProject
\* then returns the Project, repairProject returns nothing.
AfterEnableLoop(resp) ==
  /\ pPc' = "returned"
  /\ pResult' = IF pEntry = "createProject" THEN ProjectValue(pProjectId)
                ELSE NoResult

\* serviceUsageOperationGet fulfils: loop again while not done.
getEnableFulfilled ==
  /\ pPc = "getEnable"
  /\ \E op \in PollAnswers :
       /\ enableServicesOperation' = op
       /\ IF ~op.done
            THEN /\ pPc' = "sleepEnable"
                 /\ pPolls' = pPolls + 1
                 /\ pResult' = pResult
            ELSE /\ AfterEnableLoop(enableServicesResponse)
                 /\ pPolls' = pPolls
  /\ UNCHANGED <<otherVars, serverVars, healthVars, pEntry, pProjectId, pBillingId,
                 createProjectOperation, enableServicesResponse, pCalls>>

\* The pending cloud call of createProject / configureProject rejects: the
\* await throws and the call rejects.
projectCallRejected ==
  /\ pPc \in {"createProject", "getCreate", "updateBilling", "enableServices",
              "getEnable"}
  /\ pPc' = "rejected"
  /\ UNCHANGED <<otherVars, serverVars, healthVars, pEntry, pProjectId, pBillingId,
                 createProjectOperation, enableServicesResponse,
                 enableServicesOperation, pPolls, pCalls, pResult>>

NextProject ==
  \/ createProject
  \/ createProjectFulfilled
  \/ sleepCreateElapsed
  \/ getCreateFulfilled
  \/ repairProject
  \/ updateBillingFulfilled
  \/ enableServicesFulfilled
  \/ sleepEnableElapsed
  \/ getEnableFulfilled
  \/ projectCallRejected

SpecProject == Init /\ [][NextProject]_vars

\* Every cloud call is answered and every sleep elapses.
SpecProjectFair == SpecProject /\ WF_vars(NextProject)

\* -------------------------------------------------------- isProjectHealthy
ServiceNames ==
  {"compute.googleapis.com", "iam.googleapis.com", "storage.googleapis.com"}

\* Enabled-services lists of at most n entries.
RECURSIVE ServiceLists(_)
ServiceLists(n) ==
  IF n = 0 THEN {<< >>}
  ELSE LET shorter == ServiceLists(n - 1)
       IN shorter \cup {Append(l, x) : l \in {k \in shorter : Len(k) = n - 1},
                                       x \in ServiceNames}

\* billingEnabled of a ProjectBillingInfo: true, false, or left out.
BillingValues == {"true", "false", "undefined"}

\* !projectBillingInfo.billingEnabled
BillingDisabled(b) == b # "true"

\* Only the first service of the list is compared.
RECURSIVE FindFirstOnly(_, _)
FindFirstOnly(services, requiredService) ==
  IF services = << >> THEN "undefined"
  ELSE IF Head(services) = requiredService THEN Head(services)
  ELSE "undefined"

\* services.find(service => service.config.name === requiredService)
RECURSIVE Find(_, _)
Find(services, requiredService) ==
  IF services = << >> THEN "undefined"
  ELSE IF Head(services) = requiredService THEN Head(services)
  ELSE Find(Tail(services), requiredService)

\* The for loop over REQUIRED_GCP_SERVICES: false at the first one not found.
RECURSIVE AllRequiredFound(_, _)
AllRequiredFound(services, required) ==
  IF required = << >> THEN TRUE
  ELSE IF Find(services, Head(required)) = "undefined" THEN FALSE
  ELSE AllRequiredFound(services, Tail(required))

\* isProjectHealthy(projectId) issues getProjectBillingInfo.
isProjectHealthy ==
  /\ hPc = "idle"
  /\ \E p \in Projects : hProjectId' = p
  /\ hPc' = "getProjectBillingInfo"
  /\ hCalls' = [hCalls EXCEPT !["getProjectBillingInfo"] = @ + 1]
  /\ UNCHANGED <<otherVars, serverVars, projVars, hBilling, hServices, hResult>>

\* getProjectBillingInfo fulfils: false if billing is not enabled, else
\* listEnabledServices is issued.
getProjectBillingInfoFulfilled ==
  /\ hPc = "getProjectBillingInfo"
  /\ \E b \in BillingValues : hBilling' = b
  /\ IF BillingDisabled(hBilling')
       THEN /\ hPc' = "returned"
            /\ hResult' = "false"
            /\ hCalls' = hCalls
       ELSE /\ hPc' = "listEnabledServices"
            /\ hResult' = hResult
            /\ hCalls' = [hCalls EXCEPT !["listEnabledServices"] = @ + 1]
  /\ UNCHANGED <<otherVars, serverVars, projVars, hProjectId, hServices>>

\* listEnabledServices fulfils: true iff every required service is found.
listEnabledServicesFulfilled ==
  /\ hPc = "listEnabledServices"
  /\ \E l \in ServiceLists(MaxServices) : hServices' = l
  /\ hPc' = "returned"
  /\ hResult' = IF AllRequiredFound(hServices', REQUIRED_GCP_SERVICES)
                THEN "true" ELSE "false"
  /\ UNCHANGED <<otherVars, serverVars, projVars, hProjectId, hBilling, hCalls>>

\* The pending cloud call of isProjectHealthy rejects: the call rejects.
healthCallRejected ==
  /\ hPc \in {"getProjectBillingInfo", "listEnabledServices"}
  /\ hPc' = "rejected"
  /\ UNCHANGED <<otherVars, serverVars, projVars, hProjectId, hBilling, hServices, hCalls,
                 hResult>>

NextHealth ==
  \/ isProjectHealthy
  \/ getProjectBillingInfoFulfilled
  \/ listEnabledServicesFulfilled
  \/ healthCallRejected

SpecHealth == Init /\ [][NextHealth]_vars

\* ----------------------------------------------------------- listLocations
\* Zone lists of exactly n zones.
RECURSIVE ZoneLists(_)
ZoneLists(n) ==
  IF n = 0 THEN {<< >>}
  ELSE {Append(l, [name |-> ZoneName(n), region |-> r, status |-> st]) :
          l \in ZoneLists(n - 1), r \in RegionUrls, st \in ZoneStatuses}

\* s.lastIndexOf('/'), counting from 1; 0 when there is none.
RECURSIVE lastIndexOf(_, _, _)
lastIndexOf(s, ch, from) ==
  IF from = 0 THEN 0
  ELSE IF s[from] = ch THEN from
  ELSE lastIndexOf(s, ch, from - 1)

\* zone.region.substring(zone.region.lastIndexOf('/') + 1)
RegionOf(url) == SubSeq(url, lastIndexOf(url, "/", Len(url)) + 1, Len(url))

\* Every zone is taken, whatever its status.
IsUpAlways(zone) == TRUE

\* zone.status === 'UP'
IsUp(zone) == zone.status = "UP"

\* One call of the zones.map callback on the map built so far.
AddZone(result, zone) ==
  LET region == RegionOf(zone.region)
      withKey == [k \in DOMAIN result \cup {region} |->
                    IF k \in DOMAIN result THEN result[k] ELSE << >>]
  IN IF IsUp(zone)
       THEN [withKey EXCEPT ![region] = Append(@, zone.name)]
       ELSE withKey

\* zones.map(...) over the whole list, in order.
RECURSIVE ZoneMapOf(_, _)
ZoneMapOf(zones, result) ==
  IF zones = << >> THEN result
  ELSE ZoneMapOf(Tail(zones), AddZone(result, Head(zones)))

\* listLocations(projectId) issues listZones.
listLocations ==
  /\ lPc = "idle"
  /\ \E p \in Projects : lProjectId' = p
  /\ lPc' = "listZones"
  /\ UNCHANGED <<coreVars, nameVars, metricsVars, lZones, lResult>>

\* listZones fulfils (items ?? [] when the list is left out): the map is
\* built and returned.
listZonesFulfilled ==
  /\ lPc = "listZones"
  /\ \E n \in 0..MaxZones : \E zones \in ZoneLists(n) : lZones' = zones
  /\ lResult' = ZoneMapOf(lZones', EmptyZoneMap)
  /\ lPc' = "returned"
  /\ UNCHANGED <<coreVars, nameVars, metricsVars, lProjectId>>

\* listZones rejects: the call rejects.
listZonesRejected ==
  /\ lPc = "listZones"
  /\ lPc' = "rejected"
  /\ UNCHANGED <<coreVars, nameVars, metricsVars, lProjectId, lZones, lResult>>

NextLocations ==
  \/ listLocations
  \/ listZonesFulfilled
  \/ listZonesRejected

SpecLocations == Init /\ [][NextLocations]_vars

\* ------------------------------------------- OutlineSharedMetricsPublisher
\* metricsEnabled !== false in place of metricsEnabled || false: a setting
\* never written counts as enabled.
isSharingEnabledUnlessFalse == metricsEnabled # "false"

\* this.serverConfig.data().metricsEnabled || false
isSharingEnabled == metricsEnabled = "true"

\* Math.round(ms / 1000) of a non-negative number of milliseconds.
RoundSecs(ms) == (ms + 500) \div 1000

isSanctionedCountry(country) == country \in SANCTIONED_COUNTRIES

\* The loop of reportServerUsageMetrics that builds userReports.
RECURSIVE UserReports(_)
UserReports(countryUsageMetrics) ==
  IF countryUsageMetrics = << >> THEN << >>
  ELSE LET countryUsage == Head(countryUsageMetrics)
           rest == UserReports(Tail(countryUsageMetrics))
       IN IF countryUsage.inboundBytes = 0 THEN rest
          ELSE IF isSanctionedCountry(countryUsage.country) THEN rest
          ELSE << [bytesTransferred |-> countryUsage.inboundBytes,
                   countries |-> << IF countryUsage.country = "" THEN "ZZ"
                                    ELSE countryUsage.country >>] >> \o rest

startSharing ==
  /\ metricsEnabled' = "true"
  /\ UNCHANGED <<coreVars, nameVars, locVars, clock, reportStartTimestampMs,
                 resetTimeMs, hourly, daily, hFired, dFired>>

stopSharing ==
  /\ metricsEnabled' = "false"
  /\ UNCHANGED <<coreVars, nameVars, locVars, clock, reportStartTimestampMs,
                 resetTimeMs, hourly, daily, hFired, dFired>>

\* Time passes.
clockAdvance ==
  /\ clock < MaxClockSteps * 500
  /\ clock' = clock + 500
  /\ UNCHANGED <<coreVars, nameVars, locVars, metricsEnabled,
                 reportStartTimestampMs, resetTimeMs, hourly, daily, hFired,
                 dFired>>

\* The hourly callback fires: it returns at once unless sharing is enabled,
\* else getCountryUsage issues the Prometheus query over the time since the
\* last reset.
hourlyTick ==
  /\ hFired < MaxHourlyTicks
  /\ hFired' = hFired + 1
  /\ hourly' = [hourly EXCEPT ![hFired + 1] =
       IF ~isSharingEnabled
         THEN [@ EXCEPT !.pc = "skipped",
                        !.enabledAtFire = (metricsEnabled = "true")]
         ELSE [@ EXCEPT !.pc = "query",
                        !.enabledAtFire = (metricsEnabled = "true"),
                        !.timeDeltaSecs = RoundSecs(clock - resetTimeMs),
                        !.queriedAtMs = clock,
                        !.queries = @ + 1]]
  /\ UNCHANGED <<coreVars, nameVars, locVars, metricsEnabled, clock,
                 reportStartTimestampMs, resetTimeMs, daily, dFired>>

\* The Prometheus query fulfils: reportServerUsageMetrics builds the report
\* and moves reportStartTimestampMs; with no user report it returns and
\* usageMetrics.reset() runs, else collectServerUsageMetrics is issued.
hourlyQueryFulfilled(k) ==
  /\ hourly[k].pc = "query"
  /\ \E usage \in CountryUsages :
       LET userReports == UserReports(usage)
           report == [startUtcMs |-> reportStartTimestampMs,
                      endUtcMs |-> clock,
                      userReports |-> userReports]
       IN IF userReports = << >>
            THEN /\ hourly' = [hourly EXCEPT ![k].pc = "done",
                                             ![k].report = report,
                                             ![k].resets = @ + 1]
                 /\ resetTimeMs' = clock
            ELSE /\ hourly' = [hourly EXCEPT ![k].pc = "post",
                                             ![k].report = report,
                                             ![k].posts = @ + 1]
                 /\ resetTimeMs' = resetTimeMs
  /\ reportStartTimestampMs' = clock
  /\ UNCHANGED <<coreVars, nameVars, locVars, metricsEnabled, clock, daily,
                 hFired, dFired>>

\* collectServerUsageMetrics fulfils: usageMetrics.reset() runs.
hourlyPostFulfilled(k) ==
  /\ hourly[k].pc = "post"
  /\ hourly' = [hourly EXCEPT ![k].pc = "done", ![k].resets = @ + 1]
  /\ resetTimeMs' = clock
  /\ UNCHANGED <<coreVars, nameVars, locVars, metricsEnabled, clock,
                 reportStartTimestampMs, daily, hFired, dFired>>

\* The Prometheus query or the post rejects: the catch logs the error.
hourlyRejected(k) ==
  /\ hourly[k].pc \in {"query", "post"}
  /\ hourly' = [hourly EXCEPT ![k].pc = "failed"]
  /\ UNCHANGED <<coreVars, nameVars, locVars, metricsEnabled, clock,
                 reportStartTimestampMs, resetTimeMs, daily, hFired, dFired>>

\* The daily callback fires: it returns at once unless sharing is enabled,
\* else reportFeatureMetrics issues collectFeatureMetrics.
dailyTick ==
  /\ dFired < MaxDailyTicks
  /\ dFired' = dFired + 1
  /\ daily' = [daily EXCEPT ![dFired + 1] =
       IF ~isSharingEnabled
         THEN [@ EXCEPT !.pc = "skipped",
                        !.enabledAtFire = (metricsEnabled = "true")]
         ELSE [@ EXCEPT !.pc = "post",
                        !.enabledAtFire = (metricsEnabled = "true"),
                        !.timestampUtcMs = clock,
                        !.posts = @ + 1]]
  /\ UNCHANGED <<coreVars, nameVars, locVars, metricsEnabled, clock,
                 reportStartTimestampMs, resetTimeMs, hourly, hFired>>

\* collectFeatureMetrics fulfils, or rejects and the catch logs the error.
dailyPostAnswered(k) ==
  /\ daily[k].pc = "post"
  /\ \E outcome \in {"done", "failed"} :
       daily' = [daily EXCEPT ![k].pc = outcome]
  /\ UNCHANGED <<coreVars, nameVars, locVars, metricsEnabled, clock,
                 reportStartTimestampMs, resetTimeMs, hourly, hFired, dFired>>

NextMetrics ==
  \/ startSharing
  \/ stopSharing
  \/ clockAdvance
  \/ hourlyTick
  \/ dailyTick
  \/ \E k \in 1..MaxHourlyTicks :
       \/ hourlyQueryFulfilled(k)
       \/ hourlyPostFulfilled(k)
       \/ hourlyRejected(k)
  \/ \E k \in 1..MaxDailyTicks : dailyPostAnswered(k)

SpecMetrics == Init /\ [][NextMetrics]_vars

\* ------------------------------------------------------ createServer flows
Next ==
  \E f \in Flows :
    \/ createServer(f)
    \/ createInstanceFulfilled(f)
    \/ createInstanceRejected(f)
    \/ OperationDone(f)
    \/ zoneWaitFulfilled(f)
    \/ getInstanceFulfilled(f)
    \/ createStaticIpFulfilled(f)
    \/ ipStepRejected(f)
    \/ listFirewallsFulfilled(f)
    \/ createFirewallFulfilled(f)
    \/ fwStepRejected(f)

Spec == Init /\ [][Next]_vars

\* The createServer calls alone, up to the request that carries the name.
NextName == \E f \in Flows : createServer(f)

SpecName == Init /\ [][NextName]_vars

\* ================================================================== claims
Settled == {"fulfilled", "rejected"}
Range(seq) == {seq[i] : i \in 1..Len(seq)}

\* C1: the completion signal of a flow is resolved with success only when
\* both continuations have concluded with success: the firewall step has
\* fulfilled (its listFirewalls was answered) and the IP step has fulfilled
\* (the Operation is DONE and createStaticIp was issued and answered); it is
\* never success while a step is still in flight or has rejected.
C1_SuccessOnlyAfterBothSteps ==
  \A f \in Flows :
    completion[f] = "fulfilled" =>
      /\ fwStep[f] = "fulfilled"
      /\ ipStep[f] = "fulfilled"
      /\ fwListItems[f] >= 0
      /\ opStatus[f] = "DONE"
      /\ calls[f]["createStaticIp"] = 1

C1_Witness ==
  \E f \in Flows :
    /\ completion[f] = "fulfilled"
    /\ calls[f]["createFirewall"] = 1
    /\ calls[f]["createStaticIp"] = 1

\* C2: if the firewall step or the IP step of a flow fails, by a rejected
\* cloud call or by a createFirewall / createStaticIp Operation carrying
\* errors, the completion signal does not resolve to success.
C2_StepFailureFailsCompletion ==
  \A f \in Flows :
    (fwStep[f] = "rejected" \/ ipStep[f] = "rejected" \/ fwOpError[f] \/ ipOpError[f])
      => completion[f] # "fulfilled"

\* C3 as stated: the handle is returned only after the instance-creation
\* Operation has reached done.
C3_HandleOnlyAfterOperationDone ==
  \A f \in Flows : pc[f] = "returned" => opStatus[f] = "DONE"

\* C3 amended: the handle is returned only after the createInstance call has
\* answered with the submitted Operation, which may still be running; the
\* completion signal resolves to success only after the Operation is done.
C3_HandleOnlyAfterOperationSubmitted ==
  \A f \in Flows :
    /\ pc[f] = "returned" =>
         /\ opStatus[f] \in {"RUNNING", "DONE"}
         /\ completion[f] # "none"
    /\ completion[f] = "fulfilled" => opStatus[f] = "DONE"

C3_Witness ==
  \E f \in Flows :
    /\ pc[f] = "returned"
    /\ opStatus[f] = "RUNNING"
    /\ completion[f] = "pending"

\* C4: the completion signal settles at most once, and it
\* settles, with success or with failure, only after both continuations have
\* concluded.
C4_SettlesOnceAfterBothConclude ==
  \A f \in Flows :
    /\ settleCount[f] <= 1
    /\ completion[f] \in Settled =>
         (fwStep[f] \in Settled /\ ipStep[f] \in Settled)

\* C5: when createFirewallIfNeeded runs for a project after an earlier run
\* for the same project has returned having created the rule, the later run
\* issues the list query only, never createFirewall, and (no third run
\* having created a rule) exactly one rule named 'outline' exists.
C5_FirewallIdempotentSequentially ==
  \A g \in Flows : \A f \in fwPrior[g] :
    /\ calls[g]["listFirewalls"] = 1
    /\ calls[g]["createFirewall"] = 0
    /\ fwStep[g] \in {"listFirewalls", "fulfilled", "rejected"}
    /\ (\A h \in Flows \ {f, g} :
          project[h] = project[g] => calls[h]["createFirewall"] = 0)
         => firewalls[project[g]] = 1

C5_Witness ==
  \E g \in Flows :
    /\ fwPrior[g] # {}
    /\ fwStep[g] = "fulfilled"
    /\ fwListItems[g] = 1

\* C6: if the project-create Operation is done with error set, createProject
\* issues neither updateProjectBillingInfo nor enableServices and returns no
\* Project.
C6_FailedCreateStopsBeforeConfiguration ==
  (createProjectOperation.done /\ createProjectOperation.error) =>
    /\ pCalls["updateProjectBillingInfo"] = 0
    /\ pCalls["enableServices"] = 0
    /\ pPc # "returned"
    /\ pResult = NoResult

\* C7: if instance creation fails, by a rejected createInstance call or by
\* an Operation that reports an error, createServer returns no handle and no
\* createStaticIp request is issued for the flow.
C7_FailedCreationAbortsCreateServer ==
  \A f \in Flows :
    (pc[f] = "rejected" \/ (opStatus[f] = "DONE" /\ opError[f])) =>
      /\ pc[f] # "returned"
      /\ calls[f]["createStaticIp"] = 0

\* C8: isProjectHealthy returns false exactly when billing is not enabled or
\* a required service ('compute.googleapis.com') is not among the enabled
\* services, true otherwise, and issues no call other than
\* getProjectBillingInfo and listEnabledServices.
C8_HealthyIffBillingAndServices ==
  /\ hPc = "returned" =>
       /\ hResult \in {"true", "false"}
       /\ (hResult = "false") <=>
            (hBilling # "true" \/ "compute.googleapis.com" \notin Range(hServices))
  /\ \A m \in HealthMethods \ {"getProjectBillingInfo", "listEnabledServices"} :
       hCalls[m] = 0
  /\ hCalls["getProjectBillingInfo"] <= 1
  /\ hCalls["listEnabledServices"] <= 1

C8_Witness ==
  /\ hPc = "returned"
  /\ hResult = "true"
  /\ Len(hServices) >= 2
  /\ hServices[1] # "compute.googleapis.com"

\* C9: a flow whose listFirewalls found no rule and whose cloud calls all
\* succeeded has issued exactly one createFirewall and one createStaticIp,
\* and the address requested is the natIP of the first access configuration
\* of the first interface of the instance getInstance returned for the
\* flow's own instance id.
C9_OneFirewallOneStaticIpOfOwnAddress ==
  \A f \in Flows :
    (/\ completion[f] = "fulfilled"
     /\ fwListItems[f] = 0
     /\ ~fwOpError[f] /\ ~ipOpError[f] /\ ~opError[f]) =>
      /\ calls[f]["createFirewall"] = 1
      /\ calls[f]["createStaticIp"] = 1
      /\ instanceResp[f] = instance[f]
      /\ staticIpData[f] = instanceResp[f][1][1]

C9_Witness ==
  \E f \in Flows :
    /\ completion[f] = "fulfilled"
    /\ fwListItems[f] = 0
    /\ ~fwOpError[f] /\ ~ipOpError[f] /\ ~opError[f]
    /\ Len(instanceResp[f][1]) = 2
    /\ staticIpData[f] = "10.0.0.2"

\* C10: a createProject that returns has issued exactly one
\* updateProjectBillingInfo and exactly one enableServices, however many
\* polls the two Operations took, and returns {id: projectId, name:
\* 'Outline servers'}.
C10_OneBillingLinkOneEnablement ==
  (pPc = "returned" /\ pEntry = "createProject") =>
    /\ pCalls["updateProjectBillingInfo"] = 1
    /\ pCalls["enableServices"] = 1
    /\ pCalls["createProject"] = 1
    /\ pResult = [id |-> pProjectId, name |-> "Outline servers"]
    /\ pProjectId \in Projects

C10_Witness ==
  /\ pPc = "returned"
  /\ pEntry = "createProject"
  /\ pCalls["resourceManagerOperationGet"] >= 2
  /\ pCalls["serviceUsageOperationGet"] >= 2

\* Two decimal digits, zero-padded; four for the year.
Pad2(n) == IF n < 10 THEN "0" \o ToString(n) ELSE ToString(n)
Pad4(n) ==
  IF n < 10 THEN "000" \o ToString(n)
  ELSE IF n < 100 THEN "00" \o ToString(n)
  ELSE IF n < 1000 THEN "0" \o ToString(n)
  ELSE ToString(n)

\* C11: the name given for a clock reading is outline-YYYYMMDD-HHMMSS of
\* that reading: the 4-digit year, the 2-digit calendar month (01-12), the
\* 2-digit day, then the 2-digit hour, minute and second.
C11_NameIsFixedWidthTimestamp ==
  \A f \in Flows :
    nNow[f] # NoReading =>
      nName[f] = "outline-" \o Pad4(nNow[f].year) \o Pad2(nNow[f].month + 1)
                   \o Pad2(nNow[f].date) \o "-" \o Pad2(nNow[f].hours)
                   \o Pad2(nNow[f].minutes) \o Pad2(nNow[f].seconds)

\* C19: two createInstance calls whose clock readings differ in any of year,
\* month, day, hour, minute or second are given different instance names.
C19_NamesDifferAcrossSeconds ==
  \A f, g \in Flows :
    (nNow[f] # NoReading /\ nNow[g] # NoReading /\ nNow[f] # nNow[g])
      => nName[f] # nName[g]

\* key is what follows the last '/' of url (all of url if it has none).
IsAfterLastSlash(key, url) ==
  \E n \in 0..Len(url) :
    /\ key = SubSeq(url, n + 1, Len(url))
    /\ "/" \notin Range(key)
    /\ n > 0 => url[n] = "/"

\* Places (key, position) at which a zone name stands in the returned map.
PlacesOf(name) ==
  {<<k, j>> \in (DOMAIN lResult) \X (1..(MaxZones + 1)) :
     j <= Len(lResult[k]) /\ lResult[k][j] = name}

\* C12: the map listLocations returns holds a zone name only for a zone of
\* the response whose status is 'UP', holds every 'UP' zone exactly once, and
\* holds each zone under the key that follows the last '/' of its region URL.
C12_OnlyUpZonesByRegionSuffix ==
  lPc = "returned" =>
    /\ \A k \in DOMAIN lResult : \A j \in 1..Len(lResult[k]) :
         \E i \in 1..Len(lZones) :
           /\ lZones[i].name = lResult[k][j]
           /\ lZones[i].status = "UP"
           /\ IsAfterLastSlash(k, lZones[i].region)
    /\ \A i \in 1..Len(lZones) :
         lZones[i].status = "UP" => Cardinality(PlacesOf(lZones[i].name)) = 1

C12_Witness ==
  /\ lPc = "returned"
  /\ Len(lZones) = 3
  /\ lZones[1].status = "UP" /\ lZones[2].status = "DOWN" /\ lZones[3].status = "UP"
  /\ lZones[1].region # lZones[3].region
  /\ lResult[<<"a">>] = <<"zone-1", "zone-3">>

\* C13: neither a firewall call nor an IP-promotion call of a flow
\* is issued before the flow's instance-creation Operation has reached done.
C13_NoContinuationCallBeforeDone ==
  \A f \in Flows :
    (\/ calls[f]["listFirewalls"] > 0 \/ calls[f]["createFirewall"] > 0
     \/ calls[f]["getInstance"] > 0 \/ calls[f]["createStaticIp"] > 0)
      => opStatus[f] = "DONE"

\* C14: promoteEphemeralIpIfNeeded starts (its getInstance is issued) only
\* after the zone wait of the flow's Operation has been issued and has
\* returned, the Operation being done, and createStaticIp follows only an
\* answered getInstance, wherever the firewall step stands.
C14_PromotionOnlyAfterZoneWait ==
  \A f \in Flows :
    /\ calls[f]["getInstance"] > 0 =>
         /\ calls[f]["computeEngineOperationZoneWait"] = 1
         /\ ipStep[f] \notin {"none", "zoneWait"}
         /\ opStatus[f] = "DONE"
    /\ calls[f]["createStaticIp"] > 0 =>
         /\ calls[f]["getInstance"] = 1
         /\ instanceResp[f] # NoInstance
         /\ staticIpData[f] # ""

C14_Witness ==
  \E f \in Flows :
    /\ ipStep[f] = "createStaticIp"
    /\ fwStep[f] = "listFirewalls"

\* C15: in a createProject flow the billing-link call is issued only after a
\* resourceManagerOperationGet poll has reported the create Operation done;
\* enableServices is issued only after the billing-link call has returned;
\* and configureProject (so createProject and repairProject) returns only
\* after a serviceUsageOperationGet poll has reported the enable Operation
\* done.
C15_ProjectStepsSequential ==
  /\ (pEntry = "createProject" /\ pCalls["updateProjectBillingInfo"] > 0) =>
       /\ createProjectOperation.done
       /\ pCalls["resourceManagerOperationGet"] >= 1
  /\ pCalls["enableServices"] > 0 =>
       /\ pCalls["updateProjectBillingInfo"] = 1
       /\ pPc # "updateBilling"
  /\ pPc = "returned" =>
       /\ enableServicesOperation.done
       /\ pCalls["serviceUsageOperationGet"] >= 1
       /\ pCalls["enableServices"] = 1

C15_Witness ==
  /\ pPc = "returned"
  /\ pEntry = "createProject"
  /\ createProjectOperation.done /\ ~createProjectOperation.error
  /\ pCalls["resourceManagerOperationGet"] = 3

\* C16: if the service-enable Operation obtained by polling is done with
\* error set, configureProject (so createProject and repairProject) does not
\* return normally.
C16_FailedEnablementNotSwallowed ==
  (enableServicesOperation.done /\ enableServicesOperation.error)
    => pPc # "returned"

\* C17: each poll loop is left only by a query that reports done (or by a
\* rejected call), never before a first query and never while the answers
\* are "not done"; and, every call being answered and the Operation being
\* reported done after finitely many polls, each loop is eventually left.
InCreateLoop == pPc \in {"sleepCreate", "getCreate"}
InEnableLoop == pPc \in {"sleepEnable", "getEnable"}

C17_PollLoopsExitExactlyOnDone ==
  /\ [](/\ InCreateLoop => ~createProjectOperation.done
        /\ InEnableLoop => ~enableServicesOperation.done
        /\ (pEntry = "createProject" /\ ~InCreateLoop
              /\ pPc \notin {"idle", "createProject", "rejected"})
             => (createProjectOperation.done
                   /\ pCalls["resourceManagerOperationGet"] >= 1)
        /\ pPc = "returned" =>
             (enableServicesOperation.done
                /\ pCalls["serviceUsageOperationGet"] >= 1))
  /\ [][/\ (InCreateLoop /\ ~InCreateLoop' /\ pPc' # "rejected")
             => (pPc = "getCreate" /\ createProjectOperation'.done)
        /\ (InEnableLoop /\ ~InEnableLoop' /\ pPc' # "rejected")
             => (pPc = "getEnable" /\ enableServicesOperation'.done)]_vars
  /\ (InCreateLoop ~> ~InCreateLoop)
  /\ (InEnableLoop ~> ~InEnableLoop)

C17_Witness ==
  /\ pPc = "sleepEnable"
  /\ pPolls = 2
  /\ pEntry = "createProject"
  /\ pCalls["resourceManagerOperationGet"] = 1

\* C18: of two createServer flows on the same project, which had no
\* 'outline' rule, at most one issues createFirewall, under every
\* interleaving; and when no cloud call is rejected and no Operation carries
\* an error, both completion signals resolve to success.
C18_ConcurrentFlowsCreateOneFirewall ==
  \A f, g \in Flows :
    (f # g /\ project[f] = project[g] /\ project[f] \in Projects) =>
      /\ calls[f]["createFirewall"] + calls[g]["createFirewall"] <= 1
      /\ (/\ fwStep[f] = "fulfilled" /\ ipStep[f] = "fulfilled"
          /\ fwStep[g] = "fulfilled" /\ ipStep[g] = "fulfilled")
           => (completion[f] = "fulfilled" /\ completion[g] = "fulfilled")

\* C20: a timer tick that fires while sharing is disabled (metricsEnabled
\* false, or never set) returns at once: that run of the hourly callback
\* issues no usage query and no collectServerUsageMetrics call and does not
\* reset the usage metrics, and that run of the daily callback issues no
\* collectFeatureMetrics call.
C20_DisabledTickPostsNothing ==
  /\ \A k \in 1..MaxHourlyTicks :
       (hourly[k].pc # "notFired" /\ ~hourly[k].enabledAtFire)
         => /\ hourly[k].pc = "skipped"
            /\ hourly[k].queries = 0
            /\ hourly[k].posts = 0
            /\ hourly[k].resets = 0
  /\ \A k \in 1..MaxDailyTicks :
       (daily[k].pc # "notFired" /\ ~daily[k].enabledAtFire)
         => daily[k].pc = "skipped" /\ daily[k].posts = 0

\* After startSharing one hourly tick posted its report and reset the usage
\* metrics; after stopSharing the next hourly tick and the daily tick fired
\* and were skipped.
C20_Witness ==
  /\ metricsEnabled = "false"
  /\ hourly[1].posts = 1 /\ hourly[1].resets = 1
  /\ hourly[2].pc = "skipped"
  /\ daily[1].pc = "skipped"

\* C21: every hourly report that was posted carries a window that starts
\* where the usage it reports started to accumulate: the time from
\* report.startUtcMs to the usage query is, in whole seconds, the
\* timeDeltaSecs the query measured over (the time since the last
\* usageMetrics.reset()), also after a tick whose post failed.
C21_ReportWindowIsAccumulationWindow ==
  \A k \in 1..MaxHourlyTicks :
    hourly[k].posts > 0
      => RoundSecs(hourly[k].queriedAtMs - hourly[k].report.startUtcMs)
           = hourly[k].timeDeltaSecs
====
